---- MODULE Spec2Model ----
(***************************************************************************)
(* SchoolConnect: the row-level-security policies of the migration, the    *)
(* tables they guard, and the client flows that write through them.        *)
(*                                                                         *)
(* One request is one action: the caller (auth.uid()) issues a statement   *)
(* on one table, the policies and constraints of the migration decide it,  *)
(* and `last` holds who asked and how the statement ended.                 *)
(***************************************************************************)
EXTENDS Integers, Sequences, FiniteSets, TLC

VARIABLES user_roles, profiles, schools, res, last, sess, clock, stamps,
          nav, hook, feed, chat

vars == <<user_roles, profiles, schools, res, last, sess, clock, stamps,
          nav, hook, feed, chat>>

\* the state of the pages and hooks that are modelled one at a time: the
\* router, a useUserRole instance, the student notices page, the assistant
ui == <<nav, hook, feed, chat>>

\* the server's clock and the timestamp columns of the rows of one table
time == <<clock, stamps>>

(***************************************************************************)
(* Universe                                                                *)
(***************************************************************************)

\* auth.users: the identities that can hold a session
Users == {"u1", "u2"}

\* auth.uid() of a request: a signed-in user, or null for the anon key alone
Callers == Users \cup {"NULL"}

\* app_role
Roles == {"admin", "student"}

\* the three tenant-scoped resource tables
Tables == {"scholarships", "fees", "notices"}

\* SQL NULL of a uuid (auth.uid() of nobody)
NULL == "NULL"

\* SQL NULL of a text column (no string holds this character)
NULLTEXT == <<"NULL">>

\* rows the resource tables may hold in total
MaxRows == 1

(***************************************************************************)
(* Text: a string is a sequence of characters                              *)
(***************************************************************************)

Upper == [c \in {"a", "b", "A", "B", "1", "-", " "} |->
            CASE c = "a" -> "A"
              [] c = "b" -> "B"
              [] OTHER -> c]

IsAZ09(c) == c \in {"A", "B", "1"}

toUpperCase(s) == [i \in 1..Len(s) |-> Upper[s[i]]]

RECURSIVE trimLeft(_)
trimLeft(s) == IF s # <<>> /\ Head(s) = " " THEN trimLeft(Tail(s)) ELSE s

RECURSIVE trimRight(_)
trimRight(s) ==
    IF s # <<>> /\ s[Len(s)] = " " THEN trimRight(SubSeq(s, 1, Len(s) - 1)) ELSE s

trim(s) == trimRight(trimLeft(s))

\* schoolCode.toUpperCase().replace(/[^A-Z0-9]/g, '')
NormalizeCode(s) == SelectSeq(toUpperCase(s), IsAZ09)

\* browser tabs
Sessions == {"s1", "s2"}

\* "School name must be at least 3 characters."
MinNameLen == 3

\* "School code must be at least 4 characters."
MinCodeLen == 4

\* what a user may type into the name field
TypedNames == { <<"a", "b", " ">>, <<"a", "b", "1">> }

\* what a user may type into the code field
TypedCodes ==
    { <<"a", "b", "1", "1">>,
      <<"A", "-", "B", "1", "1">>,
      <<"b", "b", "1", "1", " ">>,
      <<"a", "b">> }

\* the school codes requests carry
Codes == { <<"A", "B", "1", "1">>, <<"B", "B", "1", "1">> }

(***************************************************************************)
(* Lookup functions of the migration (SECURITY DEFINER: they read the      *)
(* tables whatever the caller may see)                                     *)
(***************************************************************************)

has_role(_user_id, _role) ==
    \E r \in user_roles : r.user_id = _user_id /\ r.role = _role

get_user_school_code(_user_id) ==
    IF \E p \in profiles : p.user_id = _user_id
    THEN (CHOOSE p \in profiles : p.user_id = _user_id).school_code
    ELSE NULLTEXT

is_school_admin(_user_id, _school_code) ==
    \E i \in 1..Len(schools) :
        /\ schools[i].admin_id = _user_id
        /\ schools[i].school_code = _school_code

\* SQL equality of uuids: NULL = anything is not true
SqlEq(a, b) == a # NULL /\ b # NULL /\ a = b

\* SQL equality of texts: NULL = anything is not true
TextEq(a, b) == a # NULLTEXT /\ b # NULLTEXT /\ a = b

(***************************************************************************)
(* Policies                                                                *)
(***************************************************************************)

ProfilesSelectUsing(uid, row) == SqlEq(uid, row.user_id)

ProfilesUpdateUsing(uid, row) == SqlEq(uid, row.user_id)

\* as if the policy said WITH CHECK (true)
ProfilesUpdateCheck_None(uid, row) == TRUE

\* no WITH CHECK is given: the USING expression also checks the new row
ProfilesUpdateCheck(uid, row) == ProfilesUpdateUsing(uid, row)

ProfilesInsertCheck(uid, row) == SqlEq(uid, row.user_id)

RolesSelectUsing(uid, row) == SqlEq(uid, row.user_id)

\* as if the policy said WITH CHECK (true)
RolesInsertCheck_None(uid, row) == TRUE

RolesInsertCheck(uid, row) == SqlEq(uid, row.user_id)

\* row level security is enabled and no UPDATE policy exists: default deny
RolesUpdateUsing(uid, row) == FALSE

\* row level security is enabled and no DELETE policy exists: default deny
RolesDeleteUsing(uid, row) == FALSE

SchoolsSelectUsing(uid, row) == TRUE

\* as if the policy forgot admin_id = auth.uid()
SchoolsInsertCheck_RoleOnly(uid, row) == has_role(uid, "admin")

SchoolsInsertCheck(uid, row) ==
    has_role(uid, "admin") /\ SqlEq(row.admin_id, uid)

SchoolsUpdateUsing(uid, row) == SqlEq(row.admin_id, uid)

\* as if the policy said WITH CHECK (true)
SchoolsUpdateCheck_None(uid, row) == TRUE

\* no WITH CHECK is given: the USING expression also checks the new row
SchoolsUpdateCheck(uid, row) == SchoolsUpdateUsing(uid, row)

\* row level security is enabled and no DELETE policy exists: default deny
SchoolsDeleteUsing(uid, row) == FALSE

\* as if any user who joined some school could read
ResSelectUsing_AnyMember(t, uid, row) ==
    \/ get_user_school_code(uid) # NULLTEXT
    \/ is_school_admin(uid, row.school_code)

\* as if the policy had no is_school_admin clause
ResSelectUsing_TenantOnly(t, uid, row) ==
    TextEq(row.school_code, get_user_school_code(uid))

ResSelectUsing(t, uid, row) ==
    \/ TextEq(row.school_code, get_user_school_code(uid))
    \/ is_school_admin(uid, row.school_code)

\* as if the insert policy had been copied from the select policy
ResInsertCheck_Member(t, uid, row) ==
    \/ TextEq(row.school_code, get_user_school_code(uid))
    \/ is_school_admin(uid, row.school_code)

ResInsertCheck(t, uid, row) == is_school_admin(uid, row.school_code)

ResUpdateUsing(t, uid, row) == is_school_admin(uid, row.school_code)

\* no WITH CHECK is given: the USING expression also checks the new row
ResUpdateCheck(t, uid, row) == ResUpdateUsing(t, uid, row)

ResDeleteUsing(t, uid, row) == is_school_admin(uid, row.school_code)

\* the rows of table t a select by uid returns
Visible(t, uid) == { r \in res[t] : ResSelectUsing(t, uid, r) }

(***************************************************************************)
(* Constraints                                                             *)
(***************************************************************************)

\* as if school_code had no UNIQUE constraint
SchoolCodeFree_None(code, except) == TRUE

\* schools.school_code UNIQUE
SchoolCodeFree(code, except) ==
    \A i \in 1..Len(schools) : i = except \/ schools[i].school_code # code

\* profiles.user_id UNIQUE
ProfileUserFree(uid, except) ==
    \A p \in profiles \ except : p.user_id # uid

\* user_roles UNIQUE (user_id, role)
RoleFree(row) == row \notin user_roles

AllRows == UNION { res[t] : t \in Tables }

\* gen_random_uuid(): an id no row holds
FreshId == CHOOSE i \in 1..MaxRows : \A r \in AllRows : r.id # i

\* what the request layer hands back: who asked, which statement, how it ended
\*   ok: at least one row written; empty: success, no row matched (USING filtered)
\*   rls: 42501, a WITH CHECK failed; duplicate: 23505, a UNIQUE constraint failed
Reply(uid, op, status) == [caller |-> uid, op |-> op, status |-> status]

(***************************************************************************)
(* Client state before anything is opened                                  *)
(***************************************************************************)

\* what the hooks hand to a page: useAuth (loading, user, profile school_code),
\* useUserRole (loading, role), useSchool (loading, admin_id of the school)
NoCtx == [authLoading |-> TRUE, roleLoading |-> TRUE, schoolLoading |-> TRUE,
          user |-> NULL, role |-> NULL, code |-> NULLTEXT, school |-> NULL]

\* no route has been entered
NavIdle == [route |-> "none", from |-> "none", ctx |-> NoCtx, seen |-> {},
            shown |-> "none"]

\* fetchContext's '' (no context)
NoContext == [built |-> FALSE, code |-> NULLTEXT, scholarships |-> {},
              notices |-> {}, fees |-> {}]

\* the VoiceAssistant page before it mounts: useState(false) for the flags,
\* useState([]) for the messages, no recognition, no call, nothing sent
ChatIdle == [user |-> NULL, messages |-> <<>>, isProcessing |-> FALSE,
             isListening |-> FALSE, live |-> 0, calls |-> {}, started |-> 0,
             sent |-> NoContext]

\* the student Notices page before it mounts: no channel, no request, an
\* empty list (useState<Notice[]>([])), nothing delivered
FeedIdle == [user |-> NULL, code |-> NULLTEXT, sub |-> "none", fetch |-> "none",
             snapshot |-> <<>>, events |-> {}, list |-> <<>>, log |-> <<>>]

\* useUserRole when it mounts: useState(null), useState(true), the effect is
\* still to run, no request is out
HookMounted == [user |-> NULL, role |-> NULL, loading |-> TRUE, pending |-> TRUE,
                inflight |-> {}]

(***************************************************************************)
(* Statements                                                              *)
(***************************************************************************)

\* the client side before anything has happened
InitClient ==
    /\ last = Reply(NULL, <<"none", "none">>, "ok")
    /\ sess = [s \in Sessions |->
                [user |-> NULL, page |-> "auth", pc |-> "idle",
                 code |-> NULLTEXT, toast |-> "none", editingId |-> 0]]
    /\ clock = 0
    /\ stamps = <<>>
    /\ nav = NavIdle
    /\ hook = HookMounted
    /\ feed = FeedIdle
    /\ chat = ChatIdle

Init ==
    /\ user_roles = {}
    /\ profiles = {}
    /\ schools = <<>>
    /\ res = [t \in Tables |-> {}]
    /\ InitClient

\* insert into user_roles (user_id, role)
InsertRole(uid, row) ==
    /\ IF ~RolesInsertCheck(uid, row)
       THEN /\ last' = Reply(uid, <<"insert", "user_roles">>, "rls")
            /\ UNCHANGED user_roles
       ELSE IF ~RoleFree(row)
       THEN /\ last' = Reply(uid, <<"insert", "user_roles">>, "duplicate")
            /\ UNCHANGED user_roles
       ELSE /\ user_roles' = user_roles \cup {row}
            /\ last' = Reply(uid, <<"insert", "user_roles">>, "ok")
    /\ UNCHANGED <<profiles, schools, res>>

\* update user_roles set user_id = new.user_id, role = new.role
\*   where user_id = old.user_id and role = old.role
UpdateRole(uid, old, new) ==
    /\ old \in user_roles
    /\ IF ~(RolesSelectUsing(uid, old) /\ RolesUpdateUsing(uid, old))
       THEN /\ last' = Reply(uid, <<"update", "user_roles">>, "empty")
            /\ UNCHANGED user_roles
       ELSE IF ~RolesUpdateUsing(uid, new)
       THEN /\ last' = Reply(uid, <<"update", "user_roles">>, "rls")
            /\ UNCHANGED user_roles
       ELSE IF new # old /\ ~RoleFree(new)
       THEN /\ last' = Reply(uid, <<"update", "user_roles">>, "duplicate")
            /\ UNCHANGED user_roles
       ELSE /\ user_roles' = (user_roles \ {old}) \cup {new}
            /\ last' = Reply(uid, <<"update", "user_roles">>, "ok")
    /\ UNCHANGED <<profiles, schools, res>>

\* delete from user_roles where user_id = old.user_id and role = old.role
DeleteRole(uid, old) ==
    /\ old \in user_roles
    /\ IF ~(RolesSelectUsing(uid, old) /\ RolesDeleteUsing(uid, old))
       THEN /\ last' = Reply(uid, <<"delete", "user_roles">>, "empty")
            /\ UNCHANGED user_roles
       ELSE /\ user_roles' = user_roles \ {old}
            /\ last' = Reply(uid, <<"delete", "user_roles">>, "ok")
    /\ UNCHANGED <<profiles, schools, res>>

\* insert into profiles (user_id, school_code)
InsertProfile(uid, row) ==
    /\ IF ~ProfilesInsertCheck(uid, row)
       THEN /\ last' = Reply(uid, <<"insert", "profiles">>, "rls")
            /\ UNCHANGED profiles
       ELSE IF ~ProfileUserFree(row.user_id, {})
       THEN /\ last' = Reply(uid, <<"insert", "profiles">>, "duplicate")
            /\ UNCHANGED profiles
       ELSE /\ profiles' = profiles \cup {row}
            /\ last' = Reply(uid, <<"insert", "profiles">>, "ok")
    /\ UNCHANGED <<user_roles, schools, res>>

\* update profiles set user_id = new.user_id, school_code = new.school_code
\*   where user_id = old.user_id
UpdateProfile(uid, old, new) ==
    /\ old \in profiles
    /\ IF ~(ProfilesSelectUsing(uid, old) /\ ProfilesUpdateUsing(uid, old))
       THEN /\ last' = Reply(uid, <<"update", "profiles">>, "empty")
            /\ UNCHANGED profiles
       ELSE IF ~ProfilesUpdateCheck(uid, new)
       THEN /\ last' = Reply(uid, <<"update", "profiles">>, "rls")
            /\ UNCHANGED profiles
       ELSE IF ~ProfileUserFree(new.user_id, {old})
       THEN /\ last' = Reply(uid, <<"update", "profiles">>, "duplicate")
            /\ UNCHANGED profiles
       ELSE /\ profiles' = (profiles \ {old}) \cup {new}
            /\ last' = Reply(uid, <<"update", "profiles">>, "ok")
    /\ UNCHANGED <<user_roles, schools, res>>

\* insert into schools (school_code, admin_id)
InsertSchool(uid, row) ==
    /\ IF ~SchoolsInsertCheck(uid, row)
       THEN /\ last' = Reply(uid, <<"insert", "schools">>, "rls")
            /\ UNCHANGED schools
       ELSE IF ~SchoolCodeFree(row.school_code, 0)
       THEN /\ last' = Reply(uid, <<"insert", "schools">>, "duplicate")
            /\ UNCHANGED schools
       ELSE /\ schools' = Append(schools, row)
            /\ last' = Reply(uid, <<"insert", "schools">>, "ok")
    /\ UNCHANGED <<user_roles, profiles, res>>

\* update schools set school_code = new.school_code, admin_id = new.admin_id
\*   where id = i
UpdateSchool(uid, i, new) ==
    /\ i \in 1..Len(schools)
    /\ IF ~(SchoolsSelectUsing(uid, schools[i]) /\ SchoolsUpdateUsing(uid, schools[i]))
       THEN /\ last' = Reply(uid, <<"update", "schools">>, "empty")
            /\ UNCHANGED schools
       ELSE IF ~SchoolsUpdateCheck(uid, new)
       THEN /\ last' = Reply(uid, <<"update", "schools">>, "rls")
            /\ UNCHANGED schools
       ELSE IF ~SchoolCodeFree(new.school_code, i)
       THEN /\ last' = Reply(uid, <<"update", "schools">>, "duplicate")
            /\ UNCHANGED schools
       ELSE /\ schools' = [schools EXCEPT ![i] = new]
            /\ last' = Reply(uid, <<"update", "schools">>, "ok")
    /\ UNCHANGED <<user_roles, profiles, res>>

\* delete from schools where id = i
DeleteSchool(uid, i) ==
    /\ i \in 1..Len(schools)
    /\ IF ~(SchoolsSelectUsing(uid, schools[i]) /\ SchoolsDeleteUsing(uid, schools[i]))
       THEN /\ last' = Reply(uid, <<"delete", "schools">>, "empty")
            /\ UNCHANGED schools
       ELSE /\ schools' = [j \in 1..(Len(schools) - 1) |->
                              IF j < i THEN schools[j] ELSE schools[j + 1]]
            /\ last' = Reply(uid, <<"delete", "schools">>, "ok")
    /\ UNCHANGED <<user_roles, profiles, res>>

\* insert into <t> (school_code, ...)
InsertRes(uid, t, code) ==
    /\ IF ~ResInsertCheck(t, uid, [id |-> 0, school_code |-> code])
       THEN /\ last' = Reply(uid, <<"insert", t>>, "rls")
            /\ UNCHANGED res
       ELSE /\ Cardinality(AllRows) < MaxRows
            /\ res' = [res EXCEPT ![t] = @ \cup {[id |-> FreshId, school_code |-> code]}]
            /\ last' = Reply(uid, <<"insert", t>>, "ok")
    /\ UNCHANGED <<user_roles, profiles, schools>>

\* update <t> set school_code = code where id = old.id
UpdateRes(uid, t, old, code) ==
    /\ old \in res[t]
    /\ LET new == [old EXCEPT !.school_code = code] IN
       IF ~(ResSelectUsing(t, uid, old) /\ ResUpdateUsing(t, uid, old))
       THEN /\ last' = Reply(uid, <<"update", t>>, "empty")
            /\ UNCHANGED res
       ELSE IF ~ResUpdateCheck(t, uid, new)
       THEN /\ last' = Reply(uid, <<"update", t>>, "rls")
            /\ UNCHANGED res
       ELSE /\ res' = [res EXCEPT ![t] = (@ \ {old}) \cup {new}]
            /\ last' = Reply(uid, <<"update", t>>, "ok")
    /\ UNCHANGED <<user_roles, profiles, schools>>

\* delete from <t> where id = old.id
DeleteRes(uid, t, old) ==
    /\ old \in res[t]
    /\ IF ~(ResSelectUsing(t, uid, old) /\ ResDeleteUsing(t, uid, old))
       THEN /\ last' = Reply(uid, <<"delete", t>>, "empty")
            /\ UNCHANGED res
       ELSE /\ res' = [res EXCEPT ![t] = @ \ {old}]
            /\ last' = Reply(uid, <<"delete", t>>, "ok")
    /\ UNCHANGED <<user_roles, profiles, schools>>

\* signup: the new identity inserts its own profile (no school yet) and the
\* role it chose, both as itself
SignUp(uid, role) ==
    /\ ProfileUserFree(uid, {})
    /\ \A r \in Roles : ~has_role(uid, r)
    /\ ProfilesInsertCheck(uid, [user_id |-> uid, school_code |-> NULLTEXT])
    /\ RolesInsertCheck(uid, [user_id |-> uid, role |-> role])
    /\ profiles' = profiles \cup {[user_id |-> uid, school_code |-> NULLTEXT]}
    /\ user_roles' = user_roles \cup {[user_id |-> uid, role |-> role]}
    /\ last' = Reply(uid, <<"insert", "user_roles">>, "ok")
    /\ UNCHANGED <<schools, res>>

RoleRows == [user_id : Users, role : Roles]

ProfileRows == [user_id : Users, school_code : Codes \cup {NULLTEXT}]

SchoolRows == [school_code : Codes, admin_id : Users]

Next ==
    \/ \E uid \in Callers, row \in RoleRows : InsertRole(uid, row) /\ UNCHANGED <<sess, time, ui>>
    \/ \E uid \in Callers, old \in user_roles, new \in RoleRows :
          UpdateRole(uid, old, new) /\ UNCHANGED <<sess, time, ui>>
    \/ \E uid \in Callers, old \in user_roles : DeleteRole(uid, old) /\ UNCHANGED <<sess, time, ui>>
    \/ \E uid \in Callers, row \in ProfileRows : InsertProfile(uid, row) /\ UNCHANGED <<sess, time, ui>>
    \/ \E uid \in Callers, old \in profiles, new \in ProfileRows :
          UpdateProfile(uid, old, new) /\ UNCHANGED <<sess, time, ui>>
    \/ \E uid \in Callers, row \in SchoolRows : InsertSchool(uid, row) /\ UNCHANGED <<sess, time, ui>>
    \/ \E uid \in Callers, i \in 1..Len(schools), new \in SchoolRows :
          UpdateSchool(uid, i, new) /\ UNCHANGED <<sess, time, ui>>
    \/ \E uid \in Callers, i \in 1..Len(schools) : DeleteSchool(uid, i) /\ UNCHANGED <<sess, time, ui>>

(***************************************************************************)
(* Spec: every statement a client can send on user_roles, profiles and     *)
(* schools.                                                                *)
(***************************************************************************)
Spec == Init /\ [][Next]_vars

(***************************************************************************)
(* SpecRes: signed-up users, their schools and memberships, and every      *)
(* statement a client can send on scholarships, fees and notices.          *)
(***************************************************************************)
NextRes ==
    \/ \E uid \in Users, role \in Roles : SignUp(uid, role) /\ UNCHANGED <<sess, time, ui>>
    \/ \E uid \in Users, old \in profiles, new \in ProfileRows :
          UpdateProfile(uid, old, new) /\ UNCHANGED <<sess, time, ui>>
    \/ \E uid \in Users, row \in SchoolRows : InsertSchool(uid, row) /\ UNCHANGED <<sess, time, ui>>
    \/ \E uid \in Users, i \in 1..Len(schools), new \in SchoolRows :
          UpdateSchool(uid, i, new) /\ UNCHANGED <<sess, time, ui>>
    \/ \E uid \in Users, t \in Tables, code \in Codes : InsertRes(uid, t, code) /\ UNCHANGED <<sess, time, ui>>
    \/ \E uid \in Users, t \in Tables : \E old \in res[t], code \in Codes :
          UpdateRes(uid, t, old, code) /\ UNCHANGED <<sess, time, ui>>
    \/ \E uid \in Users, t \in Tables : \E old \in res[t] : DeleteRes(uid, t, old) /\ UNCHANGED <<sess, time, ui>>

SpecRes == Init /\ [][NextRes]_vars

(***************************************************************************)
(* Client: hooks and the CreateSchool page                                 *)
(***************************************************************************)

\* [].includes for a text of words
Includes(msg, w) == \E i \in 1..Len(msg) : msg[i] = w

\* error.message of a failed statement
PgMessage(status) ==
    IF status = "duplicate"
    THEN <<"duplicate", "key", "value", "violates", "unique", "constraint">>
    ELSE <<"new", "row", "violates", "row-level", "security", "policy">>

\* the error field of a supabase-js result: set for a failed statement, null
\* for one that ran, also when it matched no row
HasError(status) == status \in {"rls", "duplicate"}

\* AdminNotices.handleSubmit: the toast after the update (editingId set) or
\* the insert has been answered
handleSubmitToast(editingId, status) ==
    IF HasError(status) THEN "Error"
    ELSE IF editingId THEN "Notice updated" ELSE "Notice published"

\* AdminNotices.handleDelete: the toast after the delete has been answered
handleDeleteToast(status) ==
    IF HasError(status) THEN "Error" ELSE "Notice deleted"

\* a JavaScript string used as a condition: null and '' are falsy
Truthy(text) == text # NULLTEXT /\ text # <<>>

\* useUserRole.fetchRole: .single() gives the row only when exactly one matches
fetchRole(uid) ==
    LET rows == { r \in user_roles : RolesSelectUsing(uid, r) /\ r.user_id = uid } IN
    IF Cardinality(rows) = 1 THEN (CHOOSE r \in rows : TRUE).role ELSE NULL

\* useSchool.fetchSchool: the index of the school the hook resolves, 0 for null
fetchSchool(uid, profileCode) ==
    LET visible == { i \in 1..Len(schools) : SchoolsSelectUsing(uid, schools[i]) }
        admin == { i \in visible : schools[i].admin_id = uid }
        joined == { i \in visible : schools[i].school_code = profileCode }
    IN  IF Cardinality(admin) = 1 THEN CHOOSE i \in admin : TRUE
        ELSE IF Truthy(profileCode) /\ Cardinality(joined) = 1
        THEN CHOOSE i \in joined : TRUE
        ELSE 0

\* the signed-up identity opens a session in a tab
SignIn(s, uid) ==
    /\ sess[s].user = NULL
    /\ ~ProfileUserFree(uid, {})
    /\ sess' = [sess EXCEPT ![s].user = uid]
    /\ UNCHANGED <<user_roles, profiles, schools, res, last, time, ui>>

\* /admin/create-school is rendered: the guards of the page
OpenCreateSchool(s) ==
    /\ sess[s].pc = "idle"
    /\ LET uid == sess[s].user
           profileCode == get_user_school_code(uid)
       IN  sess' = [sess EXCEPT ![s].page =
                IF uid = NULL THEN "auth"
                ELSE IF fetchRole(uid) # "admin" THEN "join-school"
                ELSE IF fetchSchool(uid, profileCode) # 0 \/ Truthy(profileCode)
                THEN "admin"
                ELSE "create-school"]
    /\ UNCHANGED <<user_roles, profiles, schools, res, last, time, ui>>

\* CreateSchool.handleSubmit up to the insert request of createSchool
SubmitCreateSchool(s, name, typed) ==
    /\ sess[s].page = "create-school"
    /\ sess[s].pc = "idle"
    /\ LET schoolCode == NormalizeCode(typed) IN
       IF Len(trim(name)) < MinNameLen
       THEN sess' = [sess EXCEPT ![s].toast = "Invalid name", ![s].code = NULLTEXT]
       ELSE IF Len(trim(schoolCode)) < MinCodeLen
       THEN sess' = [sess EXCEPT ![s].toast = "Invalid code", ![s].code = NULLTEXT]
       ELSE sess' = [sess EXCEPT ![s].toast = "none", ![s].pc = "insert",
                                 ![s].code = NormalizeCode(trim(schoolCode))]
    /\ UNCHANGED <<user_roles, profiles, schools, res, last, time, ui>>

\* createSchool: the insert into schools, and handleSubmit's error branch
CreateSchoolInsert(s) ==
    /\ sess[s].pc = "insert"
    /\ InsertSchool(sess[s].user,
                    [school_code |-> sess[s].code, admin_id |-> sess[s].user])
    /\ sess' = IF last'.status = "ok"
               THEN [sess EXCEPT ![s].pc = "profile"]
               ELSE [sess EXCEPT ![s].pc = "idle",
                                 ![s].toast =
                                    IF Includes(PgMessage(last'.status), "duplicate")
                                    THEN "This school code is already taken."
                                    ELSE "Failed to create school"]
    /\ UNCHANGED <<time, ui>>

\* createSchool: the update of the admin's profile, and handleSubmit's success
\* branch (refreshProfile, toast, navigate)
CreateSchoolProfile(s) ==
    /\ sess[s].pc = "profile"
    /\ LET uid == sess[s].user
           own == { p \in profiles : p.user_id = uid }
       IN  IF own = {}
           THEN /\ last' = Reply(uid, <<"update", "profiles">>, "empty")
                /\ UNCHANGED <<user_roles, profiles, schools, res>>
           ELSE \E old \in own :
                    UpdateProfile(uid, old, [old EXCEPT !.school_code = sess[s].code])
    /\ sess' = [sess EXCEPT ![s].pc = "idle", ![s].toast = "School created!",
                            ![s].page = "admin"]
    /\ UNCHANGED <<time, ui>>

(***************************************************************************)
(* SpecCreate: users sign up, open tabs and create schools through the     *)
(* CreateSchool page; each awaited request is a step of its own.           *)
(***************************************************************************)
NextCreate ==
    \/ \E uid \in Users, role \in Roles : SignUp(uid, role) /\ UNCHANGED <<sess, time, ui>>
    \/ \E s \in Sessions, uid \in Users : SignIn(s, uid)
    \/ \E s \in Sessions : OpenCreateSchool(s)
    \/ \E s \in Sessions, name \in TypedNames, typed \in TypedCodes :
          SubmitCreateSchool(s, name, typed)
    \/ \E s \in Sessions : CreateSchoolInsert(s)
    \/ \E s \in Sessions : CreateSchoolProfile(s)

SpecCreate == Init /\ [][NextCreate]_vars

(***************************************************************************)
(* The student notices page                                                *)
(***************************************************************************)

\* as if the query had no .eq('school_code', ...) filter
fetchNotices_NoFilter(uid, code) == Visible("notices", uid)

\* Notices.fetchNotices: select * from notices where school_code = code, as uid
fetchNotices(uid, code) ==
    { r \in Visible("notices", uid) : r.school_code = code }

\* the identities of SpecNotices: an admin and two more users
Members == Users \cup {"u3"}

(***************************************************************************)
(* SpecNotices: three signed-up users; admins create schools and write     *)
(* notices, every user rewrites the school_code of a profile, and anyone   *)
(* sends inserts, updates and deletes on notices.                          *)
(***************************************************************************)
NextNotices ==
    \/ \E uid \in Members, role \in Roles : SignUp(uid, role) /\ UNCHANGED <<sess, time, ui>>
    \/ \E uid \in Members, code \in Codes :
          InsertSchool(uid, [school_code |-> code, admin_id |-> uid]) /\ UNCHANGED <<sess, time, ui>>
    \/ \E uid \in Members, old \in profiles, code \in Codes \cup {NULLTEXT} :
          UpdateProfile(uid, old, [old EXCEPT !.school_code = code]) /\ UNCHANGED <<sess, time, ui>>
    \/ \E uid \in Members, code \in Codes :
          InsertRes(uid, "notices", code) /\ UNCHANGED <<sess, time, ui>>
    \/ \E uid \in Members, old \in res["notices"], code \in Codes :
          UpdateRes(uid, "notices", old, code) /\ UNCHANGED <<sess, time, ui>>
    \/ \E uid \in Members, old \in res["notices"] :
          DeleteRes(uid, "notices", old) /\ UNCHANGED <<sess, time, ui>>

SpecNotices == Init /\ [][NextNotices]_vars

(***************************************************************************)
(* useUserRole: the role of the signed-in user as a component sees it      *)
(***************************************************************************)

\* role requests that may be unanswered at a time
MaxInflight == 2

\* useAuth hands the hook another user: somebody signs in, or the user
\* signs out; the effect is due because its dependency changed (the effect of
\* the render before has run by then)
HookSetUser(uid) ==
    /\ ~hook.pending
    /\ uid # hook.user
    /\ uid = NULL \/ hook.user = NULL
    /\ uid # NULL => ~ProfileUserFree(uid, {})
    /\ hook' = [hook EXCEPT !.user = uid, !.pending = TRUE]
    /\ UNCHANGED <<user_roles, profiles, schools, res, last, sess, time, nav, feed, chat>>

\* the effect: without a user the role is cleared; with one, fetchRole is
\* started and the state is left as it is. The request is answered with the
\* stored role, or with an error when ok is false.
HookEffect(ok) ==
    /\ hook.pending
    /\ IF hook.user = NULL
       THEN hook' = [hook EXCEPT !.role = NULL, !.loading = FALSE, !.pending = FALSE]
       ELSE /\ Cardinality(hook.inflight) < MaxInflight
            /\ hook' = [hook EXCEPT
                    !.pending = FALSE,
                    !.inflight = @ \cup
                        {[user |-> hook.user,
                          data |-> IF ok THEN fetchRole(hook.user) ELSE NULL]}]
    /\ UNCHANGED <<user_roles, profiles, schools, res, last, sess, time, nav, feed, chat>>

\* fetchRole after its await: if (!error && data) setRole(data.role);
\* setLoading(false)
HookFetchReturns(f) ==
    /\ f \in hook.inflight
    /\ hook' = [hook EXCEPT !.role = IF f.data # NULL THEN f.data ELSE @,
                            !.loading = FALSE,
                            !.inflight = @ \ {f}]
    /\ UNCHANGED <<user_roles, profiles, schools, res, last, sess, time, nav, feed, chat>>

\* the answers a role request may carry
RoleFetches == [user : Users, data : Roles \cup {NULL}]

(***************************************************************************)
(* SpecHook: users sign up; a component using useUserRole sees users sign  *)
(* in and out while its role requests are answered in any order.           *)
(***************************************************************************)
NextHook ==
    \/ \E uid \in Users, role \in Roles : SignUp(uid, role) /\ UNCHANGED <<sess, time, ui>>
    \/ \E uid \in Users \cup {NULL} : HookSetUser(uid)
    \/ \E ok \in BOOLEAN : HookEffect(ok)
    \/ \E f \in RoleFetches : HookFetchReturns(f)

SpecHook == Init /\ [][NextHook]_vars

(***************************************************************************)
(* The student Notices page: the initial fetch and the realtime channel    *)
(***************************************************************************)

\* notices the admins may publish while the page is watched
MaxNotices == 2

\* the ids of a set of rows, newest first (ids grow with created_at)
RECURSIVE NewestFirst(_)
NewestFirst(rows) ==
    IF rows = {} THEN <<>>
    ELSE LET r == CHOOSE x \in rows : \A y \in rows : y.id <= x.id
         IN  <<r.id>> \o NewestFirst(rows \ {r})

\* as if the channel carried no filter
ChannelMatches_NoFilter(filter, row) == TRUE

\* filter: `school_code=eq.${profile.school_code}`
ChannelMatches(filter, row) == row.school_code = filter

\* the supabase_realtime publication: an inserted notice is queued for the
\* channel when the channel has joined, its filter matches the row and the
\* subscriber may select the row
Publish(row) ==
    IF /\ feed.sub = "active"
       /\ ChannelMatches(feed.code, row)
       /\ ResSelectUsing("notices", feed.user, row)
    THEN [feed EXCEPT !.events = @ \cup {row}]
    ELSE feed

\* the effect of the Notices page for a user whose profile has a
\* school_code: fetchNotices is sent and the channel is requested
FeedMount(uid) ==
    /\ feed.user = NULL
    /\ ~ProfileUserFree(uid, {})
    /\ Truthy(get_user_school_code(uid))
    /\ feed' = [feed EXCEPT !.user = uid, !.code = get_user_school_code(uid),
                            !.sub = "joining", !.fetch = "sent"]
    /\ UNCHANGED <<user_roles, profiles, schools, res, last, sess, time, nav, hook, chat>>

\* .subscribe(): the server has joined the channel
FeedSubscribed ==
    /\ feed.sub = "joining"
    /\ feed' = [feed EXCEPT !.sub = "active"]
    /\ UNCHANGED <<user_roles, profiles, schools, res, last, sess, time, nav, hook, chat>>

\* the select of fetchNotices is executed by the database
FeedFetchExec ==
    /\ feed.fetch = "sent"
    /\ feed' = [feed EXCEPT !.fetch = "answered",
                            !.snapshot = NewestFirst(fetchNotices(feed.user, feed.code))]
    /\ UNCHANGED <<user_roles, profiles, schools, res, last, sess, time, nav, hook, chat>>

\* fetchNotices after its await: if (!error && data) setNotices(data)
FeedFetchReturns(ok) ==
    /\ feed.fetch = "answered"
    /\ feed' = [feed EXCEPT !.fetch = "done",
                            !.list = IF ok THEN feed.snapshot ELSE @]
    /\ UNCHANGED <<user_roles, profiles, schools, res, last, sess, time, nav, hook, chat>>

\* AdminNotices.handleSubmit's insert, and what the publication makes of it
InsertNotice(uid, code) ==
    /\ IF ~ResInsertCheck("notices", uid, [id |-> 0, school_code |-> code])
       THEN /\ last' = Reply(uid, <<"insert", "notices">>, "rls")
            /\ UNCHANGED <<res, feed>>
       ELSE /\ Cardinality(res["notices"]) < MaxNotices
            /\ LET row == [id |-> Cardinality(res["notices"]) + 1, school_code |-> code]
               IN  /\ res' = [res EXCEPT !["notices"] = @ \cup {row}]
                   /\ feed' = Publish(row)
            /\ last' = Reply(uid, <<"insert", "notices">>, "ok")
    /\ UNCHANGED <<user_roles, profiles, schools, sess, time, nav, hook, chat>>

\* the channel's callback: setNotices(prev => [payload.new, ...prev])
FeedDeliver(row) ==
    /\ row \in feed.events
    /\ feed' = [feed EXCEPT !.events = @ \ {row},
                            !.list = <<row.id>> \o @,
                            !.log = Append(@, [id |-> row.id, code |-> row.school_code,
                                               filter |-> feed.code])]
    /\ UNCHANGED <<user_roles, profiles, schools, res, last, sess, time, nav, hook, chat>>

\* delivery is best effort: a queued change is lost
FeedDrop(row) ==
    /\ row \in feed.events
    /\ feed' = [feed EXCEPT !.events = @ \ {row}]
    /\ UNCHANGED <<user_roles, profiles, schools, res, last, sess, time, nav, hook, chat>>

\* the effect's cleanup: supabase.removeChannel(channel)
FeedCleanup ==
    /\ feed.sub \in {"joining", "active"}
    /\ feed' = [feed EXCEPT !.sub = "closed", !.events = {}]
    /\ UNCHANGED <<user_roles, profiles, schools, res, last, sess, time, nav, hook, chat>>

\* the rows a channel may carry
NoticeRows == [id : 1..MaxNotices, school_code : Codes]

(***************************************************************************)
(* SpecFeed: the schools and their members are in place; one student       *)
(* Notices page is mounted while admins publish notices.                   *)
(***************************************************************************)

\* the two schools' codes
CodeA == <<"A", "B", "1", "1">>
CodeB == <<"B", "B", "1", "1">>

\* u1 has created school A. u2 is a student or an admin, may have created
\* school B, and has joined A, B or no school.
InitFeed ==
    /\ \E role2 \in Roles, code2 \in Codes \cup {NULLTEXT}, owns \in BOOLEAN :
          /\ owns => role2 = "admin"
          /\ user_roles = {[user_id |-> "u1", role |-> "admin"],
                           [user_id |-> "u2", role |-> role2]}
          /\ profiles = {[user_id |-> "u1", school_code |-> CodeA],
                         [user_id |-> "u2", school_code |-> code2]}
          /\ schools = IF owns
                       THEN <<[school_code |-> CodeA, admin_id |-> "u1"],
                              [school_code |-> CodeB, admin_id |-> "u2"]>>
                       ELSE <<[school_code |-> CodeA, admin_id |-> "u1"]>>
    /\ res = [t \in Tables |-> {}]
    /\ InitClient
NextFeed ==
    \/ \E uid \in Users : FeedMount(uid)
    \/ FeedSubscribed
    \/ FeedFetchExec
    \/ \E ok \in BOOLEAN : FeedFetchReturns(ok)
    \/ \E uid \in Users, code \in Codes : InsertNotice(uid, code)
    \/ \E row \in NoticeRows : FeedDeliver(row)
    \/ \E row \in NoticeRows : FeedDrop(row)
    \/ FeedCleanup

SpecFeed == InitFeed /\ [][NextFeed]_vars

(***************************************************************************)
(* The VoiceAssistant page: fetchContext and sendToAI                      *)
(***************************************************************************)

\* .limit(5)
ContextLimit == 5

\* sendToAI calls a page makes
MaxCalls == 2

\* recognitions that may be able to report a result at a time
MaxLive == 2

\* as if the queries carried no .eq('school_code', ...)
ContextRows_NoFilter(t, uid, code) == Visible(t, uid)

\* from(t).select(...).eq('school_code', profile.school_code), run as uid
ContextRows(t, uid, code) == { r \in Visible(t, uid) : r.school_code = code }

\* .limit(n) on an unordered select: any n of the rows, all of them when
\* there are fewer
LimitAny(rows, n) ==
    { S \in SUBSET rows : Cardinality(S) = IF Cardinality(rows) < n
                                           THEN Cardinality(rows) ELSE n }

\* .order('created_at', { ascending: false }).limit(n): the n newest rows
LimitNewest(rows, n) ==
    { S \in LimitAny(rows, n) : \A x \in S, y \in rows \ S : x.id > y.id }

\* fetchContext: '' without a school_code; else the header and a section for
\* each query that returned rows (a query that fails contributes nothing)
fetchContext(uid) ==
    LET code == get_user_school_code(uid) IN
    IF ~Truthy(code) THEN {NoContext}
    ELSE { [built |-> TRUE, code |-> code, scholarships |-> sc, notices |-> no,
            fees |-> fe] :
             sc \in LimitAny(ContextRows("scholarships", uid, code), ContextLimit) \cup {{}},
             no \in LimitNewest(ContextRows("notices", uid, code), ContextLimit) \cup {{}},
             fe \in LimitAny(ContextRows("fees", uid, code), ContextLimit) \cup {{}} }

\* the page mounts for a signed-in user; the greeting is the first message
\* when the profile is there
AssistMount(uid) ==
    /\ chat.user = NULL
    /\ ~ProfileUserFree(uid, {})
    /\ chat' = [chat EXCEPT !.user = uid,
                            !.messages = <<[role |-> "assistant", call |-> 0,
                                            content |-> "greeting"]>>]
    /\ UNCHANGED <<user_roles, profiles, schools, res, last, sess, time, nav, hook, feed>>

\* the microphone button while it is enabled and nothing is listening:
\* startListening creates and starts a recognition; onstart
startListening ==
    /\ chat.user # NULL
    /\ ~chat.isProcessing
    /\ ~chat.isListening
    /\ chat.live < MaxLive
    /\ chat' = [chat EXCEPT !.live = @ + 1, !.isListening = TRUE]
    /\ UNCHANGED <<user_roles, profiles, schools, res, last, sess, time, nav, hook, feed>>

\* the microphone button while it is enabled and listening: stopListening
\* asks the recognition to stop (it still reports what it heard) and
\* setIsListening(false)
stopListening ==
    /\ ~chat.isProcessing
    /\ chat.isListening
    /\ chat' = [chat EXCEPT !.isListening = FALSE]
    /\ UNCHANGED <<user_roles, profiles, schools, res, last, sess, time, nav, hook, feed>>

\* onresult with a final result, then onend: sendToAI(transcript) up to its
\* first await. A blank transcript returns at once (as does a recognition
\* that ends without a result).
RecognitionResult(blank) ==
    /\ chat.live > 0
    /\ IF blank
       THEN chat' = [chat EXCEPT !.live = @ - 1, !.isListening = FALSE]
       ELSE /\ chat.started < MaxCalls
            /\ chat' = [chat EXCEPT
                    !.live = @ - 1,
                    !.isListening = FALSE,
                    !.started = @ + 1,
                    !.messages = Append(@, [role |-> "user", call |-> chat.started + 1,
                                            content |-> "transcript"]),
                    !.isProcessing = TRUE,
                    !.calls = @ \cup {[id |-> chat.started + 1, stage |-> "context"]}]
    /\ UNCHANGED <<user_roles, profiles, schools, res, last, sess, time, nav, hook, feed>>

\* sendToAI: fetchContext has answered and functions.invoke is sent with
\* { message, context }
SendInvoke(c, context) ==
    /\ c \in chat.calls
    /\ c.stage = "context"
    /\ context \in fetchContext(chat.user)
    /\ chat' = [chat EXCEPT !.calls = (@ \ {c}) \cup {[c EXCEPT !.stage = "invoke"]},
                            !.sent = context]
    /\ UNCHANGED <<user_roles, profiles, schools, res, last, sess, time, nav, hook, feed>>

\* sendToAI after the invoke: the response is appended, or the fixed error
\* text when the endpoint failed; finally setIsProcessing(false)
InvokeReturns(c, ok) ==
    /\ c \in chat.calls
    /\ c.stage = "invoke"
    /\ chat' = [chat EXCEPT
            !.calls = @ \ {c},
            !.messages = Append(@, [role |-> "assistant", call |-> c.id,
                                    content |-> IF ok THEN "response" ELSE "error"]),
            !.isProcessing = FALSE]
    /\ UNCHANGED <<user_roles, profiles, schools, res, last, sess, time, nav, hook, feed>>

\* the calls a page may have pending
Calls == [id : 1..MaxCalls, stage : {"context", "invoke"}]

\* rows 1..n of school code
RowsFor(code, n) == { [id |-> i, school_code |-> code] : i \in 1..n }

\* what the three tables may hold: nothing, one row each of school A, or
\* one table with more rows of A than the limit; and maybe a row of B
FilledTables ==
    { [scholarships |-> 0, notices |-> 0, fees |-> 0],
      [scholarships |-> 1, notices |-> 1, fees |-> 1],
      [scholarships |-> ContextLimit + 1, notices |-> 1, fees |-> 1],
      [scholarships |-> 1, notices |-> ContextLimit + 1, fees |-> 1],
      [scholarships |-> 1, notices |-> 1, fees |-> ContextLimit + 1] }

(***************************************************************************)
(* SpecAssist: the schools, their members and their rows are in place; a   *)
(* user opens the VoiceAssistant page and talks to it.                     *)
(***************************************************************************)

\* u1 has created school A and published rows for it. u2 is a student or an
\* admin, may have created school B with a row in each table, and has
\* joined A, B or no school.
InitAssist ==
    /\ \E role2 \in Roles, code2 \in Codes \cup {NULLTEXT}, owns \in BOOLEAN,
          n \in FilledTables :
          /\ owns => role2 = "admin"
          /\ user_roles = {[user_id |-> "u1", role |-> "admin"],
                           [user_id |-> "u2", role |-> role2]}
          /\ profiles = {[user_id |-> "u1", school_code |-> CodeA],
                         [user_id |-> "u2", school_code |-> code2]}
          /\ schools = IF owns
                       THEN <<[school_code |-> CodeA, admin_id |-> "u1"],
                              [school_code |-> CodeB, admin_id |-> "u2"]>>
                       ELSE <<[school_code |-> CodeA, admin_id |-> "u1"]>>
          /\ res = [t \in Tables |->
                        RowsFor(CodeA, n[t]) \cup
                        IF owns THEN {[id |-> ContextLimit + 2, school_code |-> CodeB]}
                        ELSE {}]
    /\ InitClient

NextAssist ==
    \/ \E uid \in Users : AssistMount(uid)
    \/ startListening
    \/ stopListening
    \/ \E blank \in BOOLEAN : RecognitionResult(blank)
    \/ \E c \in Calls, context \in fetchContext(chat.user) : SendInvoke(c, context)
    \/ \E c \in Calls, ok \in BOOLEAN : InvokeReturns(c, ok)

SpecAssist == InitAssist /\ [][NextAssist]_vars

(***************************************************************************)
(* SpecContext: as SpecAssist, with a user who lets every recognition      *)
(* finish (the microphone button is never used to stop one).               *)
(***************************************************************************)
NextContext ==
    \/ \E uid \in Users : AssistMount(uid)
    \/ startListening
    \/ \E blank \in BOOLEAN : RecognitionResult(blank)
    \/ \E c \in Calls, context \in fetchContext(chat.user) : SendInvoke(c, context)
    \/ \E c \in Calls, ok \in BOOLEAN : InvokeReturns(c, ok)

SpecContext == InitAssist /\ [][NextContext]_vars

(***************************************************************************)
(* Timestamps: created_at and updated_at of a table that carries the       *)
(* update_updated_at_column trigger (schools, profiles, scholarships,      *)
(* fees, notices)                                                          *)
(***************************************************************************)

\* the last instant of the server's clock
MaxClock == 3

\* the rows the table may hold
MaxStamped == 2

\* a column the statement does not name
Unset == -1

\* the timestamps a statement may carry
Times == 0..MaxClock

\* update_updated_at_column(): NEW.updated_at = now(); RETURN NEW
update_updated_at_column(new_row, now) == [new_row EXCEPT !.updated_at = now]

\* insert into <table> (..., created_at, updated_at) by a caller the insert
\* policy accepts: a column the statement does not name takes DEFAULT now();
\* the transaction starts later than every earlier one
InsertStamped(created_at, updated_at) ==
    /\ clock < MaxClock
    /\ Len(stamps) < MaxStamped
    /\ clock' = clock + 1
    /\ stamps' = Append(stamps,
            [created_at |-> IF created_at = Unset THEN clock' ELSE created_at,
             updated_at |-> IF updated_at = Unset THEN clock' ELSE updated_at])
    /\ UNCHANGED <<user_roles, profiles, schools, res, last, sess, ui>>

\* update <table> set ..., created_at = .., updated_at = .. where id = i by a
\* caller the update policy accepts: a column the statement does not name
\* keeps its value, then the BEFORE UPDATE trigger runs
UpdateStamped(i, created_at, updated_at) ==
    /\ i \in 1..Len(stamps)
    /\ clock < MaxClock
    /\ clock' = clock + 1
    /\ LET new_row == [created_at |-> IF created_at = Unset THEN stamps[i].created_at
                                  ELSE created_at,
                   updated_at |-> IF updated_at = Unset THEN stamps[i].updated_at
                                  ELSE updated_at]
       IN  stamps' = [stamps EXCEPT ![i] = update_updated_at_column(new_row, clock')]
    /\ UNCHANGED <<user_roles, profiles, schools, res, last, sess, ui>>

NextTime ==
    \/ \E c \in Times \cup {Unset}, u \in Times \cup {Unset} : InsertStamped(c, u)
    \/ \E i \in 1..Len(stamps), c \in Times \cup {Unset}, u \in Times \cup {Unset} :
          UpdateStamped(i, c, u)

SpecTime == Init /\ [][NextTime]_vars

(***************************************************************************)
(* The router: each page's guards, evaluated on what the hooks hand it     *)
(***************************************************************************)

StudentRoutes ==
    {"/dashboard", "/dashboard/scholarships", "/dashboard/fees", "/dashboard/notices"}

AdminRoutes ==
    {"/admin", "/admin/scholarships", "/admin/fees", "/admin/notices", "/admin/settings"}

\* the routes a visit may start at
StartRoutes == StudentRoutes \cup AdminRoutes \cup {"/admin/create-school", "/join-school"}

\* where a student page sends an admin
AdminRouteOf(route) ==
    CASE route = "/dashboard/scholarships" -> "/admin/scholarships"
      [] route = "/dashboard/fees" -> "/admin/fees"
      [] route = "/dashboard/notices" -> "/admin/notices"
      [] OTHER -> "/admin"

\* useUserRole: isAdmin: role === 'admin'
isAdmin(c) == c.role = "admin"

\* as if the student pages did not send admins away
StudentGuard_NoAdminCheck(route, c) ==
    IF c.authLoading \/ c.roleLoading THEN "spinner"
    ELSE IF c.user = NULL THEN "/auth"
    ELSE IF ~Truthy(c.code) THEN "/join-school"
    ELSE "content"

\* Dashboard, Scholarships, Fees, Notices
StudentGuard(route, c) ==
    IF c.authLoading \/ c.roleLoading THEN "spinner"
    ELSE IF c.user = NULL THEN "/auth"
    ELSE IF isAdmin(c) THEN AdminRouteOf(route)
    ELSE IF ~Truthy(c.code) THEN "/join-school"
    ELSE "content"

\* AdminDashboard, AdminScholarships, AdminFees, AdminNotices, AdminSettings
AdminGuard(c) ==
    IF c.authLoading \/ c.roleLoading \/ c.schoolLoading THEN "spinner"
    ELSE IF ~isAdmin(c) THEN "/dashboard"
    ELSE IF c.school = NULL THEN "/admin/create-school"
    ELSE "content"

\* CreateSchool
CreateSchoolGuard(c) ==
    IF c.authLoading \/ c.roleLoading \/ c.schoolLoading THEN "spinner"
    ELSE IF c.user = NULL THEN "/auth"
    ELSE IF ~isAdmin(c) THEN "/join-school"
    ELSE IF c.school # NULL \/ Truthy(c.code) THEN "/admin"
    ELSE "content"

\* JoinSchool
JoinSchoolGuard(c) ==
    IF c.authLoading THEN "spinner"
    ELSE IF c.user = NULL THEN "/auth"
    ELSE IF Truthy(c.code) THEN "/dashboard"
    ELSE "content"

\* <Routes>: the element of a path renders; /auth shows the sign-in form
Guard(route, c) ==
    IF route \in StudentRoutes THEN StudentGuard(route, c)
    ELSE IF route \in AdminRoutes THEN AdminGuard(c)
    ELSE IF route = "/admin/create-school" THEN CreateSchoolGuard(c)
    ELSE IF route = "/join-school" THEN JoinSchoolGuard(c)
    ELSE "content"

\* what the hooks can hand a page: without a user all three hold null; the
\* school a user's hook resolved is the user's own or another admin's
Ctxs ==
    { c \in [authLoading : BOOLEAN, roleLoading : BOOLEAN, schoolLoading : BOOLEAN,
             user : {NULL, "u1"}, role : Roles \cup {NULL},
             code : {NULLTEXT, <<"A", "B", "1", "1">>}, school : Users \cup {NULL}] :
        c.user = NULL => (c.role = NULL /\ c.code = NULLTEXT /\ c.school = NULL) }

\* the browser enters a route
OpenRoute(route, c) ==
    /\ nav.route = "none"
    /\ nav' = [route |-> route, from |-> "none", ctx |-> c, seen |-> {},
               shown |-> "pending"]
    /\ UNCHANGED <<user_roles, profiles, schools, res, last, sess, time, hook, feed, chat>>

\* the route's page renders: spinner, content, or <Navigate to=... replace />
RenderRoute ==
    /\ nav.shown = "pending"
    /\ LET out == Guard(nav.route, nav.ctx) IN
       nav' = IF out \in {"spinner", "content"}
              THEN [nav EXCEPT !.shown = out]
              ELSE [nav EXCEPT !.route = out, !.from = nav.route,
                               !.seen = @ \cup {nav.route}]
    /\ UNCHANGED <<user_roles, profiles, schools, res, last, sess, time, hook, feed, chat>>

\* the hooks finish loading and the page renders again
FinishLoading ==
    /\ nav.shown = "spinner"
    /\ nav' = [nav EXCEPT !.shown = "pending", !.ctx.authLoading = FALSE,
                          !.ctx.roleLoading = FALSE, !.ctx.schoolLoading = FALSE]
    /\ UNCHANGED <<user_roles, profiles, schools, res, last, sess, time, hook, feed, chat>>

NextNav ==
    \/ \E route \in StartRoutes, c \in Ctxs : OpenRoute(route, c)
    \/ RenderRoute
    \/ FinishLoading

SpecNav == Init /\ [][NextNav]_vars

(***************************************************************************)
(* The JoinSchool page and the admin fee form                              *)
(***************************************************************************)

\* what the hooks hand a page of user uid once they have loaded
HookCtx(uid) ==
    LET profileCode == IF uid = NULL THEN NULLTEXT ELSE get_user_school_code(uid)
        i == IF uid = NULL THEN 0 ELSE fetchSchool(uid, profileCode)
    IN  [authLoading |-> FALSE, roleLoading |-> FALSE, schoolLoading |-> FALSE,
         user |-> uid,
         role |-> IF uid = NULL THEN NULL ELSE fetchRole(uid),
         code |-> profileCode,
         school |-> IF i = 0 THEN NULL ELSE schools[i].admin_id]

\* "Please enter a valid school code.": schoolCode.trim().length < 4
MinJoinCodeLen == 4

\* what a user may type into the join form's code field
TypedJoinCodes ==
    { <<"a", "b", "1", "1">>,
      <<"b", "b", "1", "1", " ">>,
      <<"a", "b", " ", " ">>,
      <<"a", "b">> }

\* /join-school is rendered: the guards of the page
OpenJoinSchool(s) ==
    /\ sess[s].pc = "idle"
    /\ sess' = [sess EXCEPT ![s].page =
            LET out == JoinSchoolGuard(HookCtx(sess[s].user)) IN
            IF out = "content" THEN "join-school-form"
            ELSE IF out = "/auth" THEN "auth" ELSE "dashboard"]
    /\ UNCHANGED <<user_roles, profiles, schools, res, last, time, ui>>

\* JoinSchool.handleSubmit up to the call of joinSchool; the input's onChange
\* keeps the field in upper case
SubmitJoinSchool(s, typed) ==
    /\ sess[s].page = "join-school-form"
    /\ sess[s].pc = "idle"
    /\ LET schoolCode == toUpperCase(typed) IN
       IF Len(trim(schoolCode)) < MinJoinCodeLen
       THEN sess' = [sess EXCEPT ![s].toast = "Invalid code", ![s].code = NULLTEXT]
       ELSE sess' = [sess EXCEPT ![s].toast = "none", ![s].pc = "join",
                                 ![s].code = trim(schoolCode)]
    /\ UNCHANGED <<user_roles, profiles, schools, res, last, time, ui>>

\* joinSchool: the caller's profile takes the code when a school holds it;
\* then handleSubmit's toast and navigate('/dashboard')
JoinSchoolRequest(s) ==
    /\ sess[s].pc = "join"
    /\ LET uid == sess[s].user
           own == { p \in profiles : p.user_id = uid }
           found == \E i \in 1..Len(schools) :
                        /\ SchoolsSelectUsing(uid, schools[i])
                        /\ schools[i].school_code = sess[s].code
       IN  IF ~found \/ own = {}
           THEN /\ sess' = [sess EXCEPT ![s].pc = "idle",
                                        ![s].toast = "Failed to join school"]
                /\ UNCHANGED <<user_roles, profiles, schools, res, last>>
           ELSE /\ \E old \in own :
                     UpdateProfile(uid, old, [old EXCEPT !.school_code = sess[s].code])
                /\ sess' = [sess EXCEPT ![s].pc = "idle", ![s].toast = "Welcome!",
                                        ![s].page = "dashboard"]
    /\ UNCHANGED <<time, ui>>

\* the characters parseFloat reads as digits
DigitVal == [c \in {"0", "3", "5"} |-> CASE c = "0" -> 0 [] c = "3" -> 3 [] c = "5" -> 5]

\* the longest prefix of s made of digits
RECURSIVE DigitsPrefix(_)
DigitsPrefix(s) ==
    IF s # <<>> /\ Head(s) \in DOMAIN DigitVal
    THEN <<Head(s)>> \o DigitsPrefix(Tail(s))
    ELSE <<>>

\* the integer a digit sequence writes
RECURSIVE DigitsToInt(_)
DigitsToInt(d) ==
    IF d = <<>> THEN 0 ELSE 10 * DigitsToInt(SubSeq(d, 1, Len(d) - 1)) + DigitVal[d[Len(d)]]

\* Number.NaN
NaN == [nan |-> TRUE, num |-> 0]

\* parseFloat: leading blanks are skipped, then a sign, digits, and a point
\* with digits are read and the rest is ignored; no digit gives NaN. The
\* value is kept as the signed integer its digits write (the point is
\* dropped), which has the sign and the zeroness of the number.
parseFloat(str) ==
    LET t == trimLeft(str)
        signed == t # <<>> /\ Head(t) \in {"-", "+"}
        body == IF signed THEN Tail(t) ELSE t
        ip == DigitsPrefix(body)
        rest == SubSeq(body, Len(ip) + 1, Len(body))
        fp == IF rest # <<>> /\ Head(rest) = "." THEN DigitsPrefix(Tail(rest)) ELSE <<>>
        digits == ip \o fp
    IN  IF digits = <<>> THEN NaN
        ELSE [nan |-> FALSE,
              num |-> IF signed /\ Head(t) = "-" THEN 0 - DigitsToInt(digits)
                      ELSE DigitsToInt(digits)]

\* x <= 0 for a JavaScript number: false for NaN
LeqZero(x) == ~x.nan /\ x.num <= 0

\* as if only the empty field were refused
AmountInvalid_EmptyOnly(amount) == ~Truthy(amount)

\* !formData.amount || parseFloat(formData.amount) <= 0
AmountInvalid(amount) == ~Truthy(amount) \/ LeqZero(parseFloat(amount))

\* what an admin may type into the amount field
TypedAmounts ==
    { <<>>, <<"0">>, <<"-", "5">>, <<"0", ".", "0">>, <<"5">>, <<"0", ".", "5">>,
      <<" ", "3">>, <<"a">> }

\* /admin/fees is rendered: the guards of the page; the form works on the
\* school useSchool resolved
OpenAdminFees(s) ==
    /\ sess[s].pc = "idle"
    /\ LET uid == sess[s].user
           out == AdminGuard(HookCtx(uid))
           i == IF uid = NULL THEN 0 ELSE fetchSchool(uid, get_user_school_code(uid))
       IN  sess' = IF out = "content"
                   THEN [sess EXCEPT ![s].page = "admin-fees",
                                     ![s].code = schools[i].school_code,
                                     ![s].editingId = 0]
                   ELSE [sess EXCEPT ![s].page =
                            IF out = "/dashboard" THEN "dashboard" ELSE "admin"]
    /\ UNCHANGED <<user_roles, profiles, schools, res, last, time, ui>>

\* AdminFees.handleSubmit up to the request: editing is the id of the fee
\* the dialog was opened on, 0 for a new fee
SubmitFee(s, amount, editing) ==
    /\ sess[s].page = "admin-fees"
    /\ sess[s].pc = "idle"
    /\ Truthy(sess[s].code)
    /\ IF AmountInvalid(amount)
       THEN sess' = [sess EXCEPT ![s].toast = "Invalid amount"]
       ELSE sess' = [sess EXCEPT ![s].toast = "none", ![s].editingId = editing,
                                 ![s].pc = IF editing # 0 THEN "fee-update"
                                           ELSE "fee-insert"]
    /\ UNCHANGED <<user_roles, profiles, schools, res, last, time, ui>>

\* AdminFees.handleSubmit: the update or insert is answered
FeeRequest(s) ==
    /\ sess[s].pc \in {"fee-insert", "fee-update"}
    /\ LET uid == sess[s].user
           target == { r \in res["fees"] : r.id = sess[s].editingId }
       IN  IF sess[s].pc = "fee-insert"
           THEN InsertRes(uid, "fees", sess[s].code)
           ELSE IF target = {}
           THEN /\ last' = Reply(uid, <<"update", "fees">>, "empty")
                /\ UNCHANGED <<user_roles, profiles, schools, res>>
           ELSE \E old \in target : UpdateRes(uid, "fees", old, sess[s].code)
    /\ sess' = IF HasError(last'.status)
               THEN [sess EXCEPT ![s].pc = "idle", ![s].toast = "Error"]
               ELSE [sess EXCEPT ![s].pc = "idle", ![s].editingId = 0,
                                 ![s].toast = IF sess[s].editingId # 0
                                              THEN "Fee updated" ELSE "Fee added"]
    /\ UNCHANGED <<time, ui>>

\* handleSignOut: signOut ends the session and the page goes to /auth
handleSignOut(s) ==
    /\ sess[s].user # NULL
    /\ sess[s].pc = "idle"
    /\ sess' = [sess EXCEPT ![s] = [user |-> NULL, page |-> "auth", pc |-> "idle",
                                    code |-> NULLTEXT, toast |-> "none",
                                    editingId |-> 0]]
    /\ UNCHANGED <<user_roles, profiles, schools, res, last, time, ui>>

\* the tab the forms are filled in
FormSessions == {"s1"}

\* the ids a fee dialog may have been opened on
FeeIds == 0..MaxRows

(***************************************************************************)
(* SpecForms: users sign up, sign in, and go through the CreateSchool,     *)
(* JoinSchool and admin fee forms; each awaited request is a step.         *)
(***************************************************************************)
NextForms ==
    \/ \E uid \in Users, role \in Roles : SignUp(uid, role) /\ UNCHANGED <<sess, time, ui>>
    \/ \E s \in FormSessions, uid \in Users : SignIn(s, uid)
    \/ \E s \in FormSessions : OpenCreateSchool(s)
    \/ \E s \in FormSessions, name \in TypedNames, typed \in TypedCodes :
          SubmitCreateSchool(s, name, typed)
    \/ \E s \in FormSessions : CreateSchoolInsert(s)
    \/ \E s \in FormSessions : CreateSchoolProfile(s)
    \/ \E s \in FormSessions : OpenJoinSchool(s)
    \/ \E s \in FormSessions, typed \in TypedJoinCodes : SubmitJoinSchool(s, typed)
    \/ \E s \in FormSessions : JoinSchoolRequest(s)
    \/ \E s \in FormSessions : OpenAdminFees(s)
    \/ \E s \in FormSessions, amount \in TypedAmounts, editing \in FeeIds :
          SubmitFee(s, amount, editing)
    \/ \E s \in FormSessions : FeeRequest(s)
    \/ \E s \in FormSessions : handleSignOut(s)

SpecForms == Init /\ [][NextForms]_vars

(***************************************************************************)
(* Properties                                                              *)
(***************************************************************************)

\* the schools row that holds code c, if any, is administered by u
AdminOfCode(u, c) ==
    \E i \in 1..Len(schools) :
        schools[i].school_code = c /\ schools[i].admin_id = u

\* the rows of table t that belong to tenant c
RowsOf(t, c) == { r \in res[t] : r.school_code = c }

\* C1 Tenant isolation on reads: a row of tenant C2 is never returned to a
\* caller whose profile school_code is another value and who is not the
\* admin_id of the school with code C2.
C1_TenantIsolation ==
    \A t \in Tables, u \in Users : \A r \in res[t] :
        (get_user_school_code(u) # r.school_code /\ ~AdminOfCode(u, r.school_code))
            => r \notin Visible(t, u)

\* a member of one tenant is refused a row of another tenant that its admin reads
C1_Witness ==
    \E t \in Tables, u \in Users, a \in Users : \E r \in res[t] :
        /\ get_user_school_code(u) \in Codes \ {r.school_code}
        /\ ~AdminOfCode(u, r.school_code)
        /\ r \notin Visible(t, u)
        /\ r \in Visible(t, a)

\* C2 No non-admin write: in every step, the set of rows of tenant C in a
\* resource table changes only if the caller of that step is the admin_id of
\* the school with code C.
C2_NoNonAdminWrite ==
    [][\A t \in Tables, c \in Codes :
          RowsOf(t, c)' # RowsOf(t, c) => AdminOfCode(last'.caller, c)]_vars

\* a student who joined tenant C, and administers nothing, had an insert refused
\* while C's table holds a row
C2_Witness ==
    \E t \in Tables, c \in Codes :
        /\ last.op = <<"insert", t>>
        /\ last.status = "rls"
        /\ get_user_school_code(last.caller) = c
        /\ has_role(last.caller, "student")
        /\ \A i \in 1..Len(schools) : schools[i].admin_id # last.caller
        /\ RowsOf(t, c) # {}

\* C3 Admin full access: the admin_id of the school with code C passes the
\* select, insert, update and delete policies on every row of C, whatever the
\* admin's own profile school_code is.
C3_AdminFullAccess ==
    \A i \in 1..Len(schools), t \in Tables : \A r \in RowsOf(t, schools[i].school_code) :
        LET A == schools[i].admin_id IN
        /\ r \in Visible(t, A)
        /\ ResInsertCheck(t, A, r)
        /\ ResUpdateUsing(t, A, r) /\ ResUpdateCheck(t, A, r)
        /\ ResDeleteUsing(t, A, r)

\* an admin whose profile school_code is not the tenant's code has just updated
\* a row of the tenant
C3_Witness ==
    \E i \in 1..Len(schools), t \in Tables :
        /\ RowsOf(t, schools[i].school_code) # {}
        /\ get_user_school_code(schools[i].admin_id) # schools[i].school_code
        /\ last = Reply(schools[i].admin_id, <<"update", t>>, "ok")

\* C5 Self-profile restriction: no caller passes the select policy on a
\* profiles row of another user, and every profiles row a step adds, removes
\* or rewrites has the step's caller as its user_id.
C5_SelfProfileOnly ==
    [][/\ \A u \in Users : \A p \in profiles :
            ProfilesSelectUsing(u, p) => p.user_id = u
       /\ \A p \in (profiles' \ profiles) \cup (profiles \ profiles') :
            p.user_id = last'.caller]_vars

\* a caller aimed an update at another user's profile and no row matched
C5_Witness ==
    /\ last.op = <<"update", "profiles">>
    /\ last.status = "empty"
    /\ \E p \in profiles : p.user_id # last.caller /\ p.school_code = NULLTEXT

\* C6 Monotonic membership: once a user's profile school_code is not null, no
\* step sets it back to null.
C6_MonotonicMembership ==
    [][\A p \in profiles :
          p.school_code # NULLTEXT => get_user_school_code(p.user_id)' # NULLTEXT]_vars

\* C7 createTenant authorization: a step adds a schools row only if the row's
\* admin_id is the caller and the caller holds the admin role; a refused
\* insert leaves schools unchanged.
C7_CreateTenantAuthorized ==
    [][/\ Len(schools') > Len(schools) =>
            /\ schools'[Len(schools')].admin_id = last'.caller
            /\ has_role(last'.caller, "admin")
       /\ (last'.op = <<"insert", "schools">> /\ last'.status # "ok") =>
            schools' = schools]_vars

\* an admin's insert into schools was refused by the policy: it named
\* another identity as admin_id
C7_Witness ==
    /\ last.op = <<"insert", "schools">>
    /\ last.status = "rls"
    /\ has_role(last.caller, "admin")

\* C9 Tenant code immutability: no step changes the school_code of an
\* existing schools row.
C9_CodeImmutable ==
    [][\A i \in 1..Len(schools) :
          i <= Len(schools') /\ schools'[i].school_code = schools[i].school_code]_vars

\* C10 Tenant ownership is fixed: no step changes the admin_id of an existing
\* schools row or removes a row, and a step rewrites a row only if its caller
\* is the row's admin_id.
C10_OwnershipFixed ==
    [][\A i \in 1..Len(schools) :
          /\ i <= Len(schools')
          /\ schools'[i].admin_id = schools[i].admin_id
          /\ schools'[i] # schools[i] => last'.caller = schools[i].admin_id]_vars

\* an owner's update was refused because the new row named another admin_id
C10_Witness ==
    /\ last.op = <<"update", "schools">>
    /\ last.status = "rls"
    /\ \E i \in 1..Len(schools) : schools[i].admin_id = last.caller

\* the session's createSchool call inserted its row
Created(s) == sess[s].pc = "profile" \/ sess[s].toast = "School created!"

\* the session's createSchool call ended with the duplicate-code message
Taken(s) == sess[s].pc = "idle" /\ sess[s].toast = "This school code is already taken."

\* C4 Code uniqueness under concurrency: no two schools rows hold the same
\* school_code, and when two sessions have each run createSchool to its insert
\* with the same normalized code, one inserted its row and the other was told
\* the code is taken.
C4_CodeUniqueness ==
    /\ \A i, j \in 1..Len(schools) :
          i # j => schools[i].school_code # schools[j].school_code
    /\ \A s1, s2 \in Sessions :
          (/\ s1 # s2
           /\ sess[s1].code # NULLTEXT
           /\ sess[s1].code = sess[s2].code
           /\ sess[s1].pc # "insert" /\ sess[s2].pc # "insert")
          => \/ Created(s1) /\ Taken(s2)
             \/ Taken(s1) /\ Created(s2)

\* two different admins submitted the same code; one was told it is taken
C4_Witness ==
    \E s1, s2 \in Sessions :
        /\ sess[s1].user # sess[s2].user
        /\ sess[s1].code = sess[s2].code
        /\ Created(s1)
        /\ Taken(s2)

\* C8 At most one tenant per admin: no user id is the admin_id of two schools
\* rows.
C8_OneTenantPerAdmin ==
    \A i, j \in 1..Len(schools) :
        i # j => schools[i].admin_id # schools[j].admin_id

\* C11 Referential integrity: every row of scholarships, fees and notices
\* holds the school_code of some existing schools row.
C11_ReferentialIntegrity ==
    \A t \in Tables : \A r \in res[t] :
        \E i \in 1..Len(schools) : schools[i].school_code = r.school_code

\* C12 At most one role per user: no user id has two user_roles rows.
C12_OneRolePerUser ==
    \A u \in Users : Cardinality({ r \in user_roles : r.user_id = u }) <= 1

\* C13 Role is irrevocable: no step removes or rewrites a user_roles row, and
\* the role the application reads for a user who has one never changes to
\* the other role or back to none.
C13_RoleIrrevocable ==
    [][/\ \A r \in user_roles : r \in user_roles'
       /\ \A u \in Users : fetchRole(u) # NULL => fetchRole(u)' = fetchRole(u)]_vars

C15_RejectedWritesReported ==
    \A t \in Tables :
        (last.op \in {<<"insert", t>>, <<"update", t>>, <<"delete", t>>}
            /\ last.status # "ok")
        => /\ last.status = "rls"
           /\ t = "notices" =>
                "Error" = IF last.op[1] = "delete"
                          THEN handleDeleteToast(last.status)
                          ELSE handleSubmitToast(last.op[1] = "update", last.status)

\* C16 Exact read for tenant members: the notices page's query for code C,
\* run by a user whose profile school_code is C, returns exactly the notices
\* rows of C; run by a user who joined another code and does not administer
\* C, it returns nothing.
C16_ExactTenantRead ==
    \A u \in Members, c \in Codes :
        /\ get_user_school_code(u) = c
              => fetchNotices(u, c) = RowsOf("notices", c)
        /\ (get_user_school_code(u) \in Codes \ {c} /\ ~AdminOfCode(u, c))
              => fetchNotices(u, c) = {}

\* student S joined C and reads its notice; student T joined another existing
\* school and gets nothing for the same query
C16_Witness ==
    \E S \in Members, T \in Members, c \in Codes :
        /\ has_role(S, "student") /\ has_role(T, "student")
        /\ get_user_school_code(S) = c
        /\ get_user_school_code(T) \in Codes \ {c}
        /\ \E i \in 1..Len(schools) : schools[i].school_code = get_user_school_code(T)
        /\ RowsOf("notices", c) # {}
        /\ fetchNotices(S, c) = RowsOf("notices", c)
        /\ fetchNotices(T, c) = {}

\* C17 Timestamp strict monotonicity: every accepted update leaves the row
\* with an updated_at strictly greater than the one it had.
C17_UpdatedAtIncreases ==
    [][\A i \in 1..Len(stamps), c \in Times \cup {Unset}, u \in Times \cup {Unset} :
          UpdateStamped(i, c, u) => stamps'[i].updated_at > stamps[i].updated_at]_vars

\* C18 Timestamp ordering: every row has updated_at >= created_at, whatever
\* timestamps the statements carried.
C18_UpdatedNotBeforeCreated ==
    \A i \in 1..Len(stamps) : stamps[i].updated_at >= stamps[i].created_at

\* C19 Membership points at a real tenant: every profiles row whose
\* school_code is not null holds the school_code of some schools row.
C19_MembershipIsReal ==
    \A p \in profiles :
        p.school_code # NULLTEXT
            => \E i \in 1..Len(schools) : schools[i].school_code = p.school_code

\* C20 Admin membership follows tenant creation: once a session's createSchool
\* has returned without error for admin A and code C, A's profile school_code
\* is C, and A, the admin_id of a schools row, has no null school_code.
C20_AdminJoinsCreatedSchool ==
    \A s \in Sessions :
        sess[s].toast = "School created!"
        => /\ get_user_school_code(sess[s].user) = sess[s].code
           /\ \A i \in 1..Len(schools) :
                 schools[i].admin_id = sess[s].user
                     => get_user_school_code(sess[s].user) # NULLTEXT

\* C25 Redirects settle: following the pages' redirects never enters a route
\* it has already left, so every visit ends at a page that renders.
C25_RedirectsSettle == nav.route \notin nav.seen

C21_JoinIsStudentOnly ==
    \A s \in FormSessions :
        (sess[s].page = "join-school-form" \/ sess[s].pc = "join")
            => /\ fetchRole(sess[s].user) = "student"
               /\ get_user_school_code(sess[s].user) = NULLTEXT

\* the amounts of TypedAmounts that are empty or not positive
NonPositiveAmounts == { <<>>, <<"0">>, <<"-", "5">>, <<"0", ".", "0">> }

\* C24 Validation precedes writes: submitting the fee form with an empty or
\* non-positive amount shows the validation error, issues no insert or
\* update, and leaves the fees table and the submitting state as they were;
\* createSchool is not called for a name shorter than 3 or a code shorter
\* than 4 characters, and joinSchool is not called for a code shorter than 4.
C24_ValidationPrecedesWrites ==
    [][\A s \in FormSessions :
          /\ (\E amount \in NonPositiveAmounts, editing \in FeeIds :
                  SubmitFee(s, amount, editing))
                => /\ sess'[s].toast = "Invalid amount"
                   /\ sess'[s].pc = "idle"
                   /\ sess[s].pc = "idle"
                   /\ res' = res
          /\ (\E name \in TypedNames, typed \in TypedCodes :
                  /\ Len(trim(name)) < 3 \/ Len(trim(typed)) < 4
                  /\ SubmitCreateSchool(s, name, typed))
                => /\ sess'[s].pc = "idle"
                   /\ sess'[s].toast \in {"Invalid name", "Invalid code"}
                   /\ schools' = schools
          /\ (\E typed \in TypedJoinCodes :
                  /\ Len(trim(typed)) < 4
                  /\ SubmitJoinSchool(s, typed))
                => /\ sess'[s].pc = "idle"
                   /\ sess'[s].toast = "Invalid code"
                   /\ profiles' = profiles
    ]_vars

\* an admin on the fee form was told the amount is invalid, and nothing is
\* pending
C24_Witness ==
    \E s \in FormSessions :
        /\ sess[s].page = "admin-fees"
        /\ sess[s].toast = "Invalid amount"
        /\ sess[s].pc = "idle"

\* C28 Admin pages write only to the admin's own tenant: whenever an admin
\* page renders its UI for a user, the school useSchool resolved for that
\* user has admin_id equal to the user.
C28_AdminPagesOwnTenant ==
    \A u \in Users :
        AdminGuard(HookCtx(u)) = "content" => HookCtx(u).school = u

\* C26 Role never stale across users: whenever useUserRole reports
\* loading = false for a non-null current user (its effect for that user has
\* run), the role it reports is null or the role stored for that user.
C26_RoleNeverStale ==
    (hook.user # NULL /\ ~hook.loading /\ ~hook.pending)
        => hook.role \in {NULL, fetchRole(hook.user)}

C27_ListConsistent ==
    (feed.user # NULL /\ fetchRole(feed.user) = "student")
        => /\ \A i, j \in 1..Len(feed.list) : feed.list[i] = feed.list[j] => i = j
           /\ feed.fetch = "done"
                 => \A k \in 1..Len(feed.log) :
                       \E i \in 1..Len(feed.list) : feed.list[i] = feed.log[k].id

\* C23 Assistant context is tenant-confined: the context passed to the
\* voice-assistant endpoint is '' when the caller has no school_code;
\* otherwise every scholarships, notices and fees row in it has the caller's
\* own profile.school_code, and it holds at most 5 rows of each.
C23_ContextTenantConfined ==
    chat.user # NULL =>
        LET code == get_user_school_code(chat.user)
            rows == chat.sent.scholarships \cup chat.sent.notices \cup chat.sent.fees
        IN  /\ code = NULLTEXT => chat.sent = NoContext
            /\ \A r \in rows : r.school_code = code
            /\ chat.sent.built => chat.sent.code = code
            /\ Cardinality(chat.sent.scholarships) <= 5
            /\ Cardinality(chat.sent.notices) <= 5
            /\ Cardinality(chat.sent.fees) <= 5

\* a user who may also read rows of another school sent a context with five
\* of the six scholarships of their own school
C23_Witness ==
    /\ chat.user # NULL
    /\ Cardinality(chat.sent.scholarships) = 5
    /\ Cardinality(RowsOf("scholarships", get_user_school_code(chat.user))) = 6
    /\ \E r \in Visible("scholarships", chat.user) :
          r.school_code # get_user_school_code(chat.user)

\* C30 Assistant request/reply pairing: each call's user message is followed
\* by exactly one assistant message of that call; isProcessing is true
\* while a call awaits its reply and false when none does.
C30_Pairing ==
    /\ chat.isProcessing <=> chat.calls # {}
    /\ \A i \in 1..Len(chat.messages) :
          (chat.messages[i].role = "assistant" /\ chat.messages[i].call # 0)
            => /\ \E j \in 1..(i - 1) :
                     /\ chat.messages[j].role = "user"
                     /\ chat.messages[j].call = chat.messages[i].call
               /\ \A j \in 1..Len(chat.messages) :
                     (chat.messages[j].role = "assistant"
                        /\ chat.messages[j].call = chat.messages[i].call) => j = i

====
